---- MODULE Spec2Model ----
(***************************************************************************)
(* Adaptive assessment backend: the in-memory session store and its        *)
(* difficulty controller (app/services/session_service.py), over the       *)
(* domain models of app/models.py.                                         *)
(***************************************************************************)
EXTENDS Integers, Sequences, FiniteSets, TLC

\* ------------------------------------------------------------------------
\* Bounds of the model
\* ------------------------------------------------------------------------

\* Performance records appended over the whole store.
MaxRecords == 3

\* Sessions and records of a store that holds several sessions.
MaxSessions == 2
MaxStoreRecords == 2

\* ------------------------------------------------------------------------
\* Value domains
\* ------------------------------------------------------------------------

\* app/models.py: class Difficulty(str, Enum)
EASY == "Easy"
MEDIUM == "Medium"
HARD == "Hard"
Difficulty == {EASY, MEDIUM, HARD}

\* Identifiers: the values uuid4() may return, and the values a caller may
\* pass as session_id.
SessionIds == {"s1", "s2"}

\* Topics a caller passes to create_session ("" fails Session's min_length=1).
Topics == {"", "AI", "ML"}

\* Question identifiers a caller passes to update_session_performance.
QuestionIds == {"q1", "q2"}

\* Scores a caller passes (101 fails PerformanceRecord's le=100).
Scores == {79, 80, 101}

VARIABLES
    sessions,   \* SessionService._sessions: session_id -> Session
    now,        \* the clock datetime.utcnow() reads
    ret,        \* outcome of the last call: what it returned or raised
    api,        \* per client: what the provider does on successive calls
    attempt,    \* per client: the loop variable of chat_completion
    calls,      \* per client: outbound calls made so far
    sleeps,     \* per client: the delays time.sleep was called with
    result,     \* per client: chat_completion's outcome, or idle / pending
    ai_client,  \* the client the services were constructed with
    request     \* the service request in progress

storeVars == <<sessions, now, ret>>
clientVars == <<api, attempt, calls, sleeps, result>>
serviceVars == <<ai_client, request>>
vars == <<sessions, now, ret, api, attempt, calls, sleeps, result, ai_client,
          request>>

\* ------------------------------------------------------------------------
\* Outcomes of a call
\* ------------------------------------------------------------------------

Return(op, session_id, value) ==
    [op |-> op, session_id |-> session_id, status |-> "ok", value |-> value]

\* SessionNotFoundError(session_id): details = {"session_id": session_id}
SessionNotFoundError_mut(op, session_id) ==
    [op |-> op, session_id |-> session_id, status |-> "SessionNotFoundError",
     value |-> [session_id |-> "unknown"]]

SessionNotFoundError(op, session_id) ==
    [op |-> op, session_id |-> session_id, status |-> "SessionNotFoundError",
     value |-> [session_id |-> session_id]]

\* pydantic's ValidationError, raised by a model constructor
ValidationError(op, session_id) ==
    [op |-> op, session_id |-> session_id, status |-> "ValidationError",
     value |-> "field constraint"]

NoCall == [op |-> "none", session_id |-> "none", status |-> "ok", value |-> "none"]

\* EvaluationService.score_threshold: a score >= 80 is a correct answer.
score_threshold == 80

\* ------------------------------------------------------------------------
\* app/models.py
\* ------------------------------------------------------------------------

\* PerformanceRecord(...): score is constrained to 0..100, is_correct is
\* whatever the caller passes.
PerformanceRecordValid(score) == score >= 0 /\ score <= 100

PerformanceRecord(question_id, score, is_correct, difficulty, timestamp) ==
    [question_id |-> question_id, score |-> score, is_correct |-> is_correct,
     difficulty |-> difficulty, timestamp |-> timestamp]

\* Session(...): topic has min_length=1.
SessionValid(topic) == Len(topic) >= 1

Session(session_id, topic, current_difficulty, created_at, updated_at) ==
    [session_id |-> session_id, topic |-> topic,
     current_difficulty |-> current_difficulty,
     performance_history |-> <<>>,
     created_at |-> created_at, updated_at |-> updated_at]

\* ------------------------------------------------------------------------
\* app/services/session_service.py
\* ------------------------------------------------------------------------

\* The last two records of a history of length >= 2: history[-2:]
LastTwo(history) == SubSeq(history, Len(history) - 1, Len(history))

\* The three adaptive rules, on a window of two records at one level.
ApplyRules_mut(records_diff, both_correct, both_incorrect, current) ==
    IF records_diff = MEDIUM /\ both_correct THEN HARD
    ELSE IF records_diff = HARD /\ both_incorrect THEN EASY
    ELSE IF records_diff = MEDIUM /\ both_incorrect THEN EASY
    ELSE IF records_diff = EASY /\ both_correct THEN MEDIUM
    ELSE current

ApplyRules(records_diff, both_correct, both_incorrect, current) ==
    IF records_diff = MEDIUM /\ both_correct THEN HARD
    ELSE IF records_diff = HARD /\ both_incorrect THEN MEDIUM
    ELSE IF records_diff = MEDIUM /\ both_incorrect THEN EASY
    ELSE current

\* SessionService.calculate_new_difficulty on a session that exists.
NewDifficulty_mut(session) ==
    LET history == session.performance_history
    IN  IF Len(history) < 1 THEN session.current_difficulty
        ELSE LET last == history[Len(history)]
             IN  ApplyRules(last.difficulty, last.is_correct,
                            ~last.is_correct, session.current_difficulty)

NewDifficulty_nowindow(session) ==
    LET history == session.performance_history
    IN  IF Len(history) < 2 THEN session.current_difficulty
        ELSE LET last_two == LastTwo(history)
             IN  ApplyRules(last_two[2].difficulty,
                            \A i \in 1..2 : last_two[i].is_correct,
                            \A i \in 1..2 : ~last_two[i].is_correct,
                            session.current_difficulty)

NewDifficulty(session) ==
    LET history == session.performance_history
    IN  IF Len(history) < 2 THEN session.current_difficulty
        ELSE LET last_two == LastTwo(history)
             IN  IF last_two[1].difficulty # last_two[2].difficulty
                 THEN session.current_difficulty
                 ELSE ApplyRules(last_two[1].difficulty,
                                 \A i \in 1..2 : last_two[i].is_correct,
                                 \A i \in 1..2 : ~last_two[i].is_correct,
                                 session.current_difficulty)

\* SessionService.get_session
get_session(store, op, session_id) ==
    IF session_id \notin DOMAIN store
    THEN SessionNotFoundError(op, session_id)
    ELSE Return(op, session_id, store[session_id])

\* SessionService.calculate_new_difficulty
calculate_new_difficulty(store, op, session_id) ==
    LET got == get_session(store, op, session_id)
    IN  IF got.status # "ok" THEN got
        ELSE Return(op, session_id, NewDifficulty(got.value))

\* SessionService.get_current_difficulty
get_current_difficulty(store, op, session_id) ==
    LET got == get_session(store, op, session_id)
    IN  IF got.status # "ok" THEN got
        ELSE Return(op, session_id, got.value.current_difficulty)

\* The store with `session` put under `session_id`.
Put_mut(store, session_id, session) ==
    [s \in {session_id} |-> session]

Put(store, session_id, session) ==
    [s \in DOMAIN store \cup {session_id} |->
        IF s = session_id THEN session ELSE store[s]]

\* The Session create_session constructs.
NewSession_mut(session_id, topic, initial_difficulty, at) ==
    Session(session_id, topic, MEDIUM, at, at)

NewSession(session_id, topic, initial_difficulty, at) ==
    Session(session_id, topic, initial_difficulty, at, at)

\* SessionService.create_session; session_id is the value uuid4() returns,
\* an identifier no session of the store has.
create_session(session_id, topic, initial_difficulty) ==
    /\ session_id \notin DOMAIN sessions
    /\ IF SessionValid(topic)
       THEN /\ sessions' = Put(sessions, session_id,
                   NewSession(session_id, topic, initial_difficulty, now))
            /\ now' = now + 1
            /\ ret' = Return("create_session", session_id, session_id)
       ELSE /\ ret' = ValidationError("create_session", session_id)
            /\ UNCHANGED <<sessions, now>>

\* The body of update_session_performance once the session is found and the
\* record constructed: append, recompute, overwrite, refresh updated_at.
Recorded_mut_tag(store, session_id, record, at) ==
    LET appended == [store EXCEPT
            ![session_id].performance_history = Append(@, record)]
        new_difficulty == NewDifficulty(appended[session_id])
    IN  [store EXCEPT
            ![session_id].performance_history =
                Append(@, [record EXCEPT !.difficulty = new_difficulty]),
            ![session_id].current_difficulty = new_difficulty,
            ![session_id].updated_at = at]

Recorded_mut_nopersist(store, session_id, record, at) ==
    [store EXCEPT
        ![session_id].performance_history = Append(@, record),
        ![session_id].updated_at = at]

Recorded_mut_prepend(store, session_id, record, at) ==
    LET appended == [store EXCEPT
            ![session_id].performance_history = <<record>> \o @]
        new_difficulty == NewDifficulty(appended[session_id])
    IN  [appended EXCEPT
            ![session_id].current_difficulty = new_difficulty,
            ![session_id].updated_at = at]

Recorded_mut_frame(store, session_id, record, at) ==
    LET appended == [store EXCEPT
            ![session_id].performance_history = Append(@, record)]
        new_difficulty == NewDifficulty(appended[session_id])
    IN  [s \in DOMAIN store |->
            [appended[s] EXCEPT
                !.current_difficulty =
                    IF s = session_id THEN new_difficulty ELSE @,
                !.updated_at = at]]

Recorded(store, session_id, record, at) ==
    LET appended == [store EXCEPT
            ![session_id].performance_history = Append(@, record)]
        new_difficulty == NewDifficulty(appended[session_id])
    IN  [appended EXCEPT
            ![session_id].current_difficulty = new_difficulty,
            ![session_id].updated_at = at]

\* Records appended so far, over all sessions.
TotalRecords ==
    LET RECURSIVE Sum(_)
        Sum(S) == IF S = {} THEN 0
                  ELSE LET s == CHOOSE x \in S : TRUE
                       IN  Len(sessions[s].performance_history) + Sum(S \ {s})
    IN  Sum(DOMAIN sessions)

\* SessionService.update_session_performance
update_session_performance(session_id, question_id, score, is_correct) ==
    LET got == get_session(sessions, "update_session_performance", session_id)
    IN  IF got.status # "ok"
        THEN /\ ret' = got
             /\ UNCHANGED <<sessions, now>>
        ELSE IF ~PerformanceRecordValid(score)
        THEN /\ ret' = ValidationError("update_session_performance", session_id)
             /\ UNCHANGED <<sessions, now>>
        ELSE /\ TotalRecords < MaxRecords
             /\ sessions' = Recorded(sessions, session_id,
                    PerformanceRecord(question_id, score, is_correct,
                        got.value.current_difficulty, now), now)
             /\ now' = now + 1
             /\ ret' = Return("update_session_performance", session_id, "None")

\* A caller's get_session
GetSession(session_id) ==
    /\ ret' = get_session(sessions, "get_session", session_id)
    /\ UNCHANGED <<sessions, now>>

\* A caller's calculate_new_difficulty
CalculateNewDifficulty(session_id) ==
    /\ ret' = calculate_new_difficulty(sessions, "calculate_new_difficulty",
                                       session_id)
    /\ UNCHANGED <<sessions, now>>

\* A caller's get_current_difficulty
GetCurrentDifficulty(session_id) ==
    /\ ret' = get_current_difficulty(sessions, "get_current_difficulty",
                                     session_id)
    /\ UNCHANGED <<sessions, now>>

\* ------------------------------------------------------------------------
\* Provider clients (app/clients/openai_client.py, gemini_client.py)
\* ------------------------------------------------------------------------

\* OpenAIClient.__init__
max_retries == 3
retry_delay == 1
operation == "chat_completion"

Clients == {"openai", "gemini"}

\* Strings a provider returns: None, a plain text (its characters), or the
\* serialisation of a JSON document.
None == [kind |-> "None"]
Str(chars) == [kind |-> "str", chars |-> chars]
Json(doc) == [kind |-> "json", doc |-> doc]

Whitespace == {" ", "\t", "\n"}

\* str.strip() on a sequence of characters
RECURSIVE lstrip(_)
lstrip(chars) ==
    IF chars # <<>> /\ Head(chars) \in Whitespace
    THEN lstrip(Tail(chars)) ELSE chars

RECURSIVE rstrip(_)
rstrip(chars) ==
    IF chars # <<>> /\ chars[Len(chars)] \in Whitespace
    THEN rstrip(SubSeq(chars, 1, Len(chars) - 1)) ELSE chars

strip(s) ==
    IF s.kind = "str" THEN Str(rstrip(lstrip(s.chars))) ELSE s

\* What one outbound call to a provider does: it returns a response with the
\* given content, or raises.
Returns(content) == [kind |-> "returns", content |-> content]
Raises(exception, has_status_code, status_code) ==
    [kind |-> "raises", exception |-> exception,
     has_status_code |-> has_status_code, status_code |-> status_code]

RateLimited == Raises("RateLimitError", TRUE, 429)
Timeout == Raises("APITimeoutError", FALSE, 0)
ConnectionFailed == Raises("APIConnectionError", FALSE, 0)
ClientError == Raises("APIError", TRUE, 404)
ServerError == Raises("APIError", TRUE, 500)
StatuslessError == Raises("APIError", FALSE, 0)
Unexpected == Raises("Exception", FALSE, 0)

\* Outcomes of chat_completion
Idle == [status |-> "idle"]
Pending == [status |-> "pending"]
Returned(value) == [status |-> "ok", value |-> value]

\* exceptions.py: OpenAIAPIError(message, operation, original_error)
OpenAIAPIError_mut(message, op, original_error) ==
    [status |-> "OpenAIAPIError", message |-> message,
     details |-> [operation |-> op, service |-> "OpenAI"],
     original_error |-> None]

OpenAIAPIError(message, op, original_error) ==
    [status |-> "OpenAIAPIError", message |-> message,
     details |-> [operation |-> op, service |-> "OpenAI"],
     original_error |-> original_error]

\* gemini_client.py: Exception(f"Gemini API error: {str(e)}")
GeminiException(e) ==
    [status |-> "Exception", message |-> "Gemini API error", str_e |-> e]

\* The except clauses of OpenAIClient.chat_completion that retry: rate limit,
\* timeout, connection, and an APIError that is not a 4xx.
Retried_mut_norate(e) ==
    \/ e.exception \in {"APITimeoutError", "APIConnectionError"}
    \/ /\ e.exception = "APIError"
       /\ ~(e.has_status_code /\ 400 <= e.status_code /\ e.status_code < 500)

Retried_mut_client(e) ==
    e.exception \in {"RateLimitError", "APITimeoutError",
                     "APIConnectionError", "APIError"}

Retried_mut_noconn(e) ==
    \/ e.exception \in {"RateLimitError", "APITimeoutError"}
    \/ /\ e.exception = "APIError"
       /\ ~(e.has_status_code /\ 400 <= e.status_code /\ e.status_code < 500)

Retried(e) ==
    \/ e.exception \in {"RateLimitError", "APITimeoutError",
                        "APIConnectionError"}
    \/ /\ e.exception = "APIError"
       /\ ~(e.has_status_code /\ 400 <= e.status_code /\ e.status_code < 500)

\* delay = self.retry_delay * (2 ** attempt)
Backoff_mut(k) == retry_delay

Backoff(k) == retry_delay * 2^k

\* The message of the OpenAIAPIError raised for failure e.
ErrorMessage(e) ==
    CASE e.exception = "RateLimitError" ->
            "Rate limit exceeded after all retries"
      [] e.exception = "APITimeoutError" ->
            "Request timeout after all retries"
      [] e.exception = "APIConnectionError" ->
            "Connection error after all retries"
      [] e.exception = "APIError" /\ ~Retried(e) -> "API client error"
      [] e.exception = "APIError" /\ Retried(e) ->
            "API error after all retries"
      [] OTHER -> "Unexpected error"

\* The OpenAIAPIError raised for a response whose content is None: raised
\* inside the try block, caught by `except Exception` and wrapped.
EmptyResponseError ==
    OpenAIAPIError("Unexpected error", operation,
        OpenAIAPIError("Received empty response from OpenAI API", operation,
                       None))

\* One iteration of `for attempt in range(self.max_retries)` in
\* OpenAIClient.chat_completion: the outbound call and the handling of what
\* it did, the backoff sleep included.
openai_attempt ==
    /\ result["openai"].status = "pending"
    /\ attempt["openai"] < max_retries
    /\ LET k == attempt["openai"]
           r == api["openai"][calls["openai"] + 1]
       IN  /\ calls' = [calls EXCEPT !["openai"] = @ + 1]
           /\ IF r.kind = "returns"
              THEN /\ result' = [result EXCEPT !["openai"] =
                          IF r.content.kind = "None"
                          THEN EmptyResponseError
                          ELSE Returned(r.content)]
                   /\ UNCHANGED <<attempt, sleeps>>
              ELSE IF Retried(r) /\ k < max_retries - 1
              THEN /\ sleeps' = [sleeps EXCEPT !["openai"] =
                                    Append(@, Backoff(k))]
                   /\ attempt' = [attempt EXCEPT !["openai"] = k + 1]
                   /\ UNCHANGED result
              ELSE /\ result' = [result EXCEPT !["openai"] =
                          OpenAIAPIError(ErrorMessage(r), operation, r)]
                   /\ UNCHANGED <<attempt, sleeps>>
    /\ UNCHANGED api

\* GeminiClient.chat_completion: one outbound call, no loop; the text of the
\* response stripped, or a plain Exception for whatever went wrong (a
\* response without text included).
gemini_call ==
    /\ result["gemini"].status = "pending"
    /\ LET r == api["gemini"][calls["gemini"] + 1]
       IN  /\ calls' = [calls EXCEPT !["gemini"] = @ + 1]
           /\ result' = [result EXCEPT !["gemini"] =
                  IF r.kind = "returns"
                  THEN IF r.content.kind = "None"
                       THEN GeminiException(Raises("AttributeError", FALSE, 0))
                       ELSE Returned(strip(r.content))
                  ELSE GeminiException(r)]
    /\ UNCHANGED <<api, attempt, sleeps>>

\* A caller's chat_completion on one client.
chat_completion(c) ==
    /\ result[c].status = "idle"
    /\ result' = [result EXCEPT ![c] = Pending]
    /\ UNCHANGED <<api, attempt, calls, sleeps>>

\* No client is in use.
ClientsIdle ==
    /\ attempt = [c \in Clients |-> 0]
    /\ calls = [c \in Clients |-> 0]
    /\ sleeps = [c \in Clients |-> <<>>]
    /\ result = [c \in Clients |-> Idle]

\* No service has been constructed and no request is in progress.
NoClient == [class |-> "none"]
NoRequest == [op |-> "none"]

ServicesIdle ==
    /\ ai_client = NoClient
    /\ request = NoRequest

\* ------------------------------------------------------------------------
\* HybridAIClient (app/clients/hybrid_ai_client.py)
\* ------------------------------------------------------------------------

\* Python's truth value of an Optional[str]
Falsy(s) == s.kind = "None" \/ (s.kind = "str" /\ s.chars = <<>>)

Digits == {"0", "1", "2", "3", "4", "5", "6", "7", "8", "9"}

\* str.lower() on one character
lower(ch) ==
    LET upper == <<"A", "B", "C", "D", "E", "F", "G", "H", "I", "J", "K", "L",
                   "M", "N", "O", "P", "Q", "R", "S", "T", "U", "V", "W", "X",
                   "Y", "Z">>
        lowered == <<"a", "b", "c", "d", "e", "f", "g", "h", "i", "j", "k",
                     "l", "m", "n", "o", "p", "q", "r", "s", "t", "u", "v",
                     "w", "x", "y", "z">>
    IN  IF \E i \in 1..26 : upper[i] = ch
        THEN lowered[CHOOSE i \in 1..26 : upper[i] = ch]
        ELSE ch

\* question.lower().startswith(word)
startswith(chars, word) ==
    /\ Len(chars) >= Len(word)
    /\ \A i \in 1..Len(word) : lower(chars[i]) = word[i]

question_words ==
    {<<"w", "h", "a", "t">>, <<"h", "o", "w">>, <<"w", "h", "y">>,
     <<"w", "h", "e", "n">>, <<"w", "h", "e", "r", "e">>,
     <<"w", "h", "i", "c", "h">>, <<"w", "h", "o">>, <<"c", "a", "n">>,
     <<"c", "o", "u", "l", "d">>, <<"w", "o", "u", "l", "d">>,
     <<"s", "h", "o", "u", "l", "d">>,
     <<"e", "x", "p", "l", "a", "i", "n">>,
     <<"d", "e", "s", "c", "r", "i", "b", "e">>,
     <<"a", "n", "a", "l", "y", "z", "e">>}

Min(a, b) == IF a <= b THEN a ELSE b

\* HybridAIClient._score_question
score_question(question) ==
    IF Falsy(question) THEN 0
    ELSE LET chars == question.chars
             length == Len(chars)
             length_score == IF 50 <= length /\ length <= 150 THEN 20
                             ELSE IF 30 <= length /\ length <= 200 THEN 10
                             ELSE 0
             digit_score == IF \E i \in 1..length : chars[i] \in Digits
                            THEN 10 ELSE 0
             word_score == IF \E word \in question_words :
                                  startswith(chars, word)
                           THEN 15 ELSE 0
             clarity_score == IF chars[length] = "?" THEN 5 ELSE 0
         IN  Min(50 + length_score + digit_score + word_score
                 + clarity_score, 100)

NoQuestionGenerated ==
    Str(<<"E", "r", "r", "o", "r", ":", " ", "N", "o", " ", "q", "u", "e",
          "s", "t", "i", "o", "n", " ", "g", "e", "n", "e", "r", "a", "t",
          "e", "d">>)

\* HybridAIClient._select_best_question
select_best_question_mut_gpt(gpt_question, gemini_question) ==
    IF Falsy(gpt_question) THEN NoQuestionGenerated ELSE gpt_question

select_best_question_mut_strict(gpt_question, gemini_question) ==
    IF Falsy(gpt_question)
    THEN IF Falsy(gemini_question) THEN NoQuestionGenerated
         ELSE gemini_question
    ELSE IF Falsy(gemini_question) THEN gpt_question
    ELSE IF score_question(gpt_question) > score_question(gemini_question)
    THEN gpt_question
    ELSE gemini_question

select_best_question(gpt_question, gemini_question) ==
    IF Falsy(gpt_question)
    THEN IF Falsy(gemini_question) THEN NoQuestionGenerated
         ELSE gemini_question
    ELSE IF Falsy(gemini_question) THEN gpt_question
    ELSE IF score_question(gpt_question) >= score_question(gemini_question)
    THEN gpt_question
    ELSE gemini_question

\* JSON values: integers, booleans, strings, null.
JInt(n) == [t |-> "int", int |-> n]
JBool(b) == [t |-> "bool", bool |-> b]
JStr(chars) == [t |-> "str", chars |-> chars]
JNull == [t |-> "null"]

\* dict.get(key, default)
get(data, key, default) == IF key \in DOMAIN data THEN data[key] ELSE default

\* Python's truth value of a JSON value
Truthy(v) ==
    CASE v.t = "int" -> v.int # 0
      [] v.t = "bool" -> v.bool
      [] v.t = "str" -> v.chars # <<>>
      [] OTHER -> FALSE

\* A value Python multiplies by a float: an int, or a bool as 0 or 1.
IsNumber(v) == v.t \in {"int", "bool"}
Number(v) == IF v.t = "int" THEN v.int ELSE IF v.bool THEN 1 ELSE 0

\* The pairs (a, b) of -1..101 for which the double a * 0.6 + b * 0.4 falls
\* just below the integer (6a + 4b) / 10.
FloatShortfall ==
    {<<6, 1>>, <<9, -1>>, <<12, 2>>, <<24, -1>>, <<24, 4>>, <<31, 1>>,
     <<36, 1>>, <<41, 1>>, <<46, 1>>, <<48, 3>>, <<48, 8>>, <<51, 1>>,
     <<57, 2>>, <<57, 7>>, <<62, 2>>, <<62, 7>>, <<67, 2>>, <<67, 7>>,
     <<72, 2>>, <<72, 7>>, <<77, 2>>, <<77, 7>>, <<82, 2>>, <<82, 7>>,
     <<87, 2>>, <<87, 7>>, <<92, 2>>, <<92, 7>>, <<96, 1>>, <<96, 6>>,
     <<96, 11>>, <<96, 16>>, <<97, 2>>, <<97, 7>>, <<101, 1>>, <<101, 6>>}

\* int(gpt_score * 0.6 + gemini_score * 0.4), for scores in -1..101: the
\* double sum truncated toward zero.
combined_score_mut(gpt_score, gemini_score) ==
    (6 * gpt_score + 4 * gemini_score) \div 10 - 1

combined_score(gpt_score, gemini_score) ==
    LET n == 6 * gpt_score + 4 * gemini_score
        exact == IF n >= 0 THEN n \div 10 ELSE -((-n) \div 10)
    IN  IF <<gpt_score, gemini_score>> \in FloatShortfall
        THEN exact - 1 ELSE exact

\* HybridAIClient._merge_feedback (len(x) > len(y) * 1.5)
merge_feedback_mut(gpt_feedback, gemini_feedback) ==
    IF 2 * Len(gpt_feedback.chars) >= 3 * Len(gemini_feedback.chars)
    THEN gpt_feedback
    ELSE IF 2 * Len(gemini_feedback.chars) >= 3 * Len(gpt_feedback.chars)
    THEN gemini_feedback
    ELSE gpt_feedback

merge_feedback(gpt_feedback, gemini_feedback) ==
    IF 2 * Len(gpt_feedback.chars) > 3 * Len(gemini_feedback.chars)
    THEN gpt_feedback
    ELSE IF 2 * Len(gemini_feedback.chars) > 3 * Len(gpt_feedback.chars)
    THEN gemini_feedback
    ELSE gpt_feedback

NoEvaluationGenerated ==
    Json([error |-> JStr(<<"N", "o", " ", "e", "v", "a", "l", "u", "a", "t",
                           "i", "o", "n", " ", "g", "e", "n", "e", "r", "a",
                           "t", "e", "d">>)])

\* The try block of _combine_evaluations runs to its end: both strings are
\* JSON, the scores can be multiplied and the feedbacks have a length.
Combinable(gpt_eval, gemini_eval) ==
    /\ gpt_eval.kind = "json" /\ gemini_eval.kind = "json"
    /\ IsNumber(get(gpt_eval.doc, "score", JInt(0)))
    /\ IsNumber(get(gemini_eval.doc, "score", JInt(0)))
    /\ get(gpt_eval.doc, "feedback_text", JStr(<<>>)).t = "str"
    /\ get(gemini_eval.doc, "feedback_text", JStr(<<>>)).t = "str"

\* HybridAIClient._combine_evaluations
combine_evaluations_mut(gpt_eval, gemini_eval) ==
    IF Falsy(gpt_eval)
    THEN IF Falsy(gemini_eval)
         THEN Json([score |-> JInt(0), is_correct |-> JBool(FALSE),
                    feedback_text |-> JStr(<<"-">>),
                    suggested_difficulty |-> JStr(<<"E", "a", "s", "y">>)])
         ELSE gemini_eval
    ELSE gpt_eval

combine_evaluations_mut_or(gpt_eval, gemini_eval) ==
    IF Falsy(gpt_eval)
    THEN IF Falsy(gemini_eval) THEN NoEvaluationGenerated ELSE gemini_eval
    ELSE IF Falsy(gemini_eval) THEN gpt_eval
    ELSE IF ~Combinable(gpt_eval, gemini_eval) THEN gpt_eval
    ELSE LET gpt_data == gpt_eval.doc
             gemini_data == gemini_eval.doc
             gpt_correct == get(gpt_data, "is_correct", JBool(FALSE))
             gemini_correct == get(gemini_data, "is_correct", JBool(FALSE))
         IN  Json([score |-> JInt(combined_score(
                        Number(get(gpt_data, "score", JInt(0))),
                        Number(get(gemini_data, "score", JInt(0))))),
                   is_correct |-> IF Truthy(gpt_correct) THEN gpt_correct
                                  ELSE gemini_correct,
                   feedback_text |-> merge_feedback(
                        get(gpt_data, "feedback_text", JStr(<<>>)),
                        get(gemini_data, "feedback_text", JStr(<<>>))),
                   suggested_difficulty |->
                        get(gpt_data, "suggested_difficulty",
                            JStr(<<"M", "e", "d", "i", "u", "m">>))])

combine_evaluations_mut_secondary(gpt_eval, gemini_eval) ==
    IF Falsy(gpt_eval)
    THEN IF Falsy(gemini_eval) THEN NoEvaluationGenerated ELSE gemini_eval
    ELSE IF Falsy(gemini_eval) THEN gpt_eval
    ELSE IF ~Combinable(gpt_eval, gemini_eval) THEN gpt_eval
    ELSE LET gpt_data == gpt_eval.doc
             gemini_data == gemini_eval.doc
             gpt_correct == get(gpt_data, "is_correct", JBool(FALSE))
             gemini_correct == get(gemini_data, "is_correct", JBool(FALSE))
         IN  Json([score |-> JInt(combined_score(
                        Number(get(gpt_data, "score", JInt(0))),
                        Number(get(gemini_data, "score", JInt(0))))),
                   is_correct |-> IF Truthy(gpt_correct) THEN gemini_correct
                                  ELSE gpt_correct,
                   feedback_text |-> merge_feedback(
                        get(gpt_data, "feedback_text", JStr(<<>>)),
                        get(gemini_data, "feedback_text", JStr(<<>>))),
                   suggested_difficulty |->
                        get(gemini_data, "suggested_difficulty",
                            JStr(<<"M", "e", "d", "i", "u", "m">>))])

combine_evaluations(gpt_eval, gemini_eval) ==
    IF Falsy(gpt_eval)
    THEN IF Falsy(gemini_eval) THEN NoEvaluationGenerated ELSE gemini_eval
    ELSE IF Falsy(gemini_eval) THEN gpt_eval
    ELSE IF ~Combinable(gpt_eval, gemini_eval) THEN gpt_eval
    ELSE LET gpt_data == gpt_eval.doc
             gemini_data == gemini_eval.doc
             gpt_correct == get(gpt_data, "is_correct", JBool(FALSE))
             gemini_correct == get(gemini_data, "is_correct", JBool(FALSE))
         IN  Json([score |-> JInt(combined_score(
                        Number(get(gpt_data, "score", JInt(0))),
                        Number(get(gemini_data, "score", JInt(0))))),
                   is_correct |-> IF Truthy(gpt_correct) THEN gemini_correct
                                  ELSE gpt_correct,
                   feedback_text |-> merge_feedback(
                        get(gpt_data, "feedback_text", JStr(<<>>)),
                        get(gemini_data, "feedback_text", JStr(<<>>))),
                   suggested_difficulty |->
                        get(gpt_data, "suggested_difficulty",
                            JStr(<<"M", "e", "d", "i", "u", "m">>))])

\* asyncio.gather(gpt_task, gemini_task, return_exceptions=True) returns:
\* both tasks are done.
gathered_mut(results) == \E c \in Clients : results[c].status # "pending"

gathered(results) == \A c \in Clients : results[c].status # "pending"

\* What a leg hands to the policy step: its value, None for an exception.
Response(r) == IF r.status = "ok" THEN r.value ELSE None

\* HybridAIClient.chat_completion: generate_question_hybrid for "text",
\* evaluate_answer_hybrid for "json"; without Gemini the OpenAI client's
\* outcome, value or OpenAIAPIError, is the outcome.
hybrid_chat_completion(has_gemini, response_format, results) ==
    IF ~has_gemini THEN results["openai"]
    ELSE LET gpt_response == Response(results["openai"])
             gemini_response == Response(results["gemini"])
         IN  Returned(IF response_format = "json"
                      THEN combine_evaluations(gpt_response, gemini_response)
                      ELSE select_best_question(gpt_response,
                                                gemini_response))

\* SessionService.__init__: an empty store.
EmptyStore ==
    /\ sessions = <<>>
    /\ now = 0
    /\ ret = NoCall

Init ==
    /\ EmptyStore
    /\ api = [c \in Clients |-> <<>>]
    /\ ClientsIdle
    /\ ServicesIdle

Next ==
    \/ \E session_id \in SessionIds, topic \in Topics, d \in Difficulty :
          /\ DOMAIN sessions = {}
          /\ create_session(session_id, topic, d)
          /\ UNCHANGED <<clientVars, serviceVars>>
    \/ \E session_id \in SessionIds, question_id \in QuestionIds,
          score \in Scores, is_correct \in BOOLEAN :
          /\ update_session_performance(session_id, question_id, score,
                                        is_correct)
          /\ UNCHANGED <<clientVars, serviceVars>>
    \/ \E session_id \in SessionIds :
          GetSession(session_id) /\ UNCHANGED <<clientVars, serviceVars>>
    \/ \E session_id \in SessionIds :
          CalculateNewDifficulty(session_id)
          /\ UNCHANGED <<clientVars, serviceVars>>
    \/ \E session_id \in SessionIds :
          GetCurrentDifficulty(session_id)
          /\ UNCHANGED <<clientVars, serviceVars>>

\* One session's life: a store in which a session is created and then used,
\* with calls on its identifier and on identifiers that were never issued.
Spec == Init /\ [][Next]_vars

\* Identifiers uuid4() may return while a store of several sessions is built.
StoreSessionIds == {"s1", "s2", "s3"}

StoreNext ==
    \/ \E session_id \in StoreSessionIds, topic \in Topics \ {""},
          d \in Difficulty :
          /\ Cardinality(DOMAIN sessions) < MaxSessions
          /\ create_session(session_id, topic, d)
          /\ UNCHANGED <<clientVars, serviceVars>>
    \/ \E session_id \in StoreSessionIds, is_correct \in BOOLEAN :
          /\ TotalRecords < MaxStoreRecords
          /\ update_session_performance(session_id, "q1", score_threshold,
                                        is_correct)
          /\ UNCHANGED <<clientVars, serviceVars>>

\* A store of several sessions: sessions are created while others already
\* exist and have recorded attempts.
SpecStore == Init /\ [][StoreNext]_vars

\* What a provider does on one call, in the study of the clients alone.
Responses ==
    {RateLimited, Timeout, ConnectionFailed, ClientError, ServerError,
     StatuslessError, Unexpected, Returns(None),
     Returns(Str(<<"o", "k", " ">>))}

Scripts == [1..max_retries -> Responses]

\* Both providers behave alike: the same response to the n-th call.
InvokerInit ==
    /\ EmptyStore
    /\ \E script \in Scripts : api = [c \in Clients |-> script]
    /\ ClientsIdle
    /\ ServicesIdle

InvokerNext ==
    \/ \E c \in Clients :
          chat_completion(c) /\ UNCHANGED <<storeVars, serviceVars>>
    \/ openai_attempt /\ UNCHANGED <<storeVars, serviceVars>>
    \/ gemini_call /\ UNCHANGED <<storeVars, serviceVars>>

\* One chat_completion on each client, against providers that behave alike.
SpecInvoker == InvokerInit /\ [][InvokerNext]_vars

\* Each started call keeps running: its thread is scheduled.
SpecInvokerFair ==
    /\ SpecInvoker
    /\ WF_vars(openai_attempt /\ UNCHANGED <<storeVars, serviceVars>>)
    /\ WF_vars(gemini_call /\ UNCHANGED <<storeVars, serviceVars>>)

\* ------------------------------------------------------------------------
\* Services and router (app/services/question_service.py,
\* evaluation_service.py, app/routers/assessment.py)
\* ------------------------------------------------------------------------

\* The keyword arguments an exception was given become its details.
Details(kwargs) == kwargs

\* exceptions.py: QuestionGenerationError(message, topic, difficulty,
\* original_error); kwargs holds the topic and difficulty that were passed.
QuestionGenerationError(message, kwargs, original_error) ==
    [status |-> "QuestionGenerationError", message |-> message,
     details |-> Details(kwargs), original_error |-> original_error]

\* exceptions.py: EvaluationError(message, question_id, original_error)
EvaluationError(message, kwargs, original_error) ==
    [status |-> "EvaluationError", message |-> message,
     details |-> Details(kwargs), original_error |-> original_error]

\* app/models.py: Question (question_text and topic have min_length=1)
QuestionValid(question_text, topic) ==
    question_text.chars # <<>> /\ topic # ""

Question(question_id, question_text, difficulty, topic) ==
    [question_id |-> question_id, question_text |-> question_text,
     difficulty |-> difficulty, topic |-> topic]

\* QuestionService.generate_question, given the outcome of
\* self.ai_client.chat_completion and the value uuid4() returned.
generate_question(ai_outcome, question_id, topic, difficulty) ==
    IF ai_outcome.status = "OpenAIAPIError"
    THEN QuestionGenerationError("Failed to generate question", {},
                                 ai_outcome)
    ELSE IF ai_outcome.status # "ok"
    THEN QuestionGenerationError(
             "Unexpected error during question generation", {}, ai_outcome)
    ELSE LET question_text == strip(ai_outcome.value)
         IN  IF Falsy(question_text)
             THEN QuestionGenerationError(
                      "Unexpected error during question generation", {},
                      QuestionGenerationError(
                          "Received empty question text from GPT-4o", {},
                          None))
             ELSE IF ~QuestionValid(question_text, topic)
             THEN QuestionGenerationError(
                      "Unexpected error during question generation", {},
                      [status |-> "ValidationError"])
             ELSE Returned(Question(question_id, question_text, difficulty,
                                    topic))

\* Difficulty(suggested_difficulty_str)
DifficultyNames ==
    {<<"E", "a", "s", "y">>, <<"M", "e", "d", "i", "u", "m">>,
     <<"H", "a", "r", "d">>}

DifficultyOf(chars) ==
    IF chars = <<"E", "a", "s", "y">> THEN EASY
    ELSE IF chars = <<"M", "e", "d", "i", "u", "m">> THEN MEDIUM
    ELSE HARD

required_fields ==
    {"score", "is_correct", "feedback_text", "suggested_difficulty"}

\* app/models.py: EvaluationResult
EvaluationResult(score, is_correct, feedback_text, suggested_difficulty) ==
    [score |-> score, is_correct |-> is_correct,
     feedback_text |-> feedback_text,
     suggested_difficulty |-> suggested_difficulty]

\* EvaluationService._parse_evaluation_response
parse_evaluation_response(response_text) ==
    IF response_text.kind # "json"
    THEN EvaluationError("Failed to parse evaluation response as JSON", {},
                         [status |-> "JSONDecodeError"])
    ELSE LET data == response_text.doc
         IN  IF ~(required_fields \subseteq DOMAIN data)
             THEN EvaluationError("Response missing required fields", {},
                                  None)
             ELSE IF ~(/\ IsNumber(data["score"])
                       /\ 0 <= Number(data["score"])
                       /\ Number(data["score"]) <= 100)
             THEN EvaluationError("Invalid score value", {}, None)
             ELSE IF data["is_correct"].t # "bool"
             THEN EvaluationError("Invalid is_correct value", {}, None)
             ELSE IF ~(/\ data["feedback_text"].t = "str"
                       /\ strip(Str(data["feedback_text"].chars)).chars
                            # <<>>)
             THEN EvaluationError(
                      "feedback_text must be a non-empty string", {}, None)
             ELSE IF ~(/\ data["suggested_difficulty"].t = "str"
                       /\ data["suggested_difficulty"].chars
                            \in DifficultyNames)
             THEN EvaluationError("Invalid suggested_difficulty", {}, None)
             ELSE Returned(EvaluationResult(
                      Number(data["score"]), data["is_correct"].bool,
                      strip(Str(data["feedback_text"].chars)),
                      DifficultyOf(data["suggested_difficulty"].chars)))

\* EvaluationService.evaluate_answer, given the outcome of
\* self.ai_client.chat_completion; an EvaluationError of the parser is
\* caught by `except Exception` and wrapped.
evaluate_answer(ai_outcome) ==
    IF ai_outcome.status = "OpenAIAPIError"
    THEN EvaluationError("Failed to evaluate answer", {}, ai_outcome)
    ELSE IF ai_outcome.status # "ok"
    THEN EvaluationError("Unexpected error during evaluation", {},
                         ai_outcome)
    ELSE LET parsed == parse_evaluation_response(ai_outcome.value)
         IN  IF parsed.status = "ok" THEN parsed
             ELSE EvaluationError("Unexpected error during evaluation", {},
                                  parsed)

\* The clients a service is constructed with: OpenAIClient by the routers'
\* get_evaluation_service / get_question_service, HybridAIClient (with or
\* without Gemini) by create_evaluation_service / create_question_service.
AIClients ==
    {[class |-> "OpenAIClient"],
     [class |-> "HybridAIClient", has_gemini |-> TRUE],
     [class |-> "HybridAIClient", has_gemini |-> FALSE]}

TwoLegs(client) == client.class = "HybridAIClient" /\ client.has_gemini

\* The calls a request starts: the OpenAI client's, and the Gemini client's
\* when the hybrid client has one.
Dispatched(client) ==
    [c \in Clients |->
        IF c = "openai" \/ TwoLegs(client) THEN Pending ELSE Idle]

\* The provider calls of the request have ended.
joined_mut(client, results) == results["openai"].status # "pending"

joined(client, results) ==
    IF TwoLegs(client) THEN gathered(results)
    ELSE results["openai"].status # "pending"

\* self.ai_client.chat_completion(...) of the service
ai_chat_completion(client, response_format, results) ==
    IF client.class = "OpenAIClient" THEN results["openai"]
    ELSE hybrid_chat_completion(client.has_gemini, response_format, results)

\* What a service call or a route returned or raised.
Outcome(op, session_id, outcome) ==
    [op |-> op, session_id |-> session_id, status |-> outcome.status,
     value |-> IF outcome.status = "ok" THEN outcome.value ELSE outcome]

NoRequestYet ==
    /\ request = NoRequest
    /\ \A c \in Clients : result[c].status = "idle"

\* QuestionService.generate_question, up to the provider calls
generate_question_begin(question_id, topic, difficulty) ==
    /\ NoRequestYet
    /\ request' = [op |-> "generate_question", session_id |-> "none",
                   question_id |-> question_id, topic |-> topic,
                   difficulty |-> difficulty, response_format |-> "text",
                   state |-> "awaiting", finished |-> <<>>]
    /\ result' = Dispatched(ai_client)
    /\ UNCHANGED <<storeVars, api, attempt, calls, sleeps, ai_client>>

\* QuestionService.generate_question, from the return of the provider calls
generate_question_end ==
    /\ request.op = "generate_question"
    /\ request.state = "awaiting"
    /\ joined(ai_client, result)
    /\ ret' = Outcome("generate_question", "none",
                  generate_question(
                      ai_chat_completion(ai_client, "text", result),
                      request.question_id, request.topic,
                      request.difficulty))
    /\ request' = [request EXCEPT !.state = "completed"]
    /\ UNCHANGED <<sessions, now, clientVars, ai_client>>

\* routers/assessment.py submit_answer, up to the provider calls
submit_answer_begin(session_id, question_id) ==
    /\ NoRequestYet
    /\ LET got == get_session(sessions, "submit_answer", session_id)
       IN  IF got.status # "ok"
           THEN /\ ret' = got
                /\ UNCHANGED <<request, result>>
           ELSE /\ request' = [op |-> "submit_answer",
                               session_id |-> session_id,
                               question_id |-> question_id,
                               response_format |-> "json",
                               state |-> "awaiting", finished |-> <<>>]
                /\ result' = Dispatched(ai_client)
                /\ UNCHANGED ret
    /\ UNCHANGED <<sessions, now, api, attempt, calls, sleeps, ai_client>>

\* routers/assessment.py submit_answer, from the return of the provider
\* calls: evaluate_answer, then update_session_performance and the response.
submit_answer_end ==
    /\ request.op = "submit_answer"
    /\ request.state = "awaiting"
    /\ joined(ai_client, result)
    /\ LET evaluation == evaluate_answer(
                             ai_chat_completion(ai_client, "json", result))
           session_id == request.session_id
       IN  IF evaluation.status # "ok"
           THEN /\ ret' = Outcome("submit_answer", session_id, evaluation)
                /\ UNCHANGED <<sessions, now>>
           ELSE /\ sessions' = Recorded(sessions, session_id,
                       PerformanceRecord(request.question_id,
                           evaluation.value.score,
                           evaluation.value.is_correct,
                           sessions[session_id].current_difficulty, now),
                       now)
                /\ now' = now + 1
                /\ ret' = Return("submit_answer", session_id,
                       [score |-> evaluation.value.score,
                        is_correct |-> evaluation.value.is_correct,
                        feedback_text |-> evaluation.value.feedback_text,
                        new_difficulty |->
                            sessions'[session_id].current_difficulty])
    /\ request' = [request EXCEPT !.state = "completed"]
    /\ UNCHANGED <<clientVars, ai_client>>

\* A provider call made for the request has taken a step; `finished` notes
\* the order in which the calls end.
Finish(c) ==
    request' = [request EXCEPT !.finished =
                   IF result'[c].status # "pending" THEN Append(@, c) ELSE @]

\* Provider responses in the study of the services.
EvalA ==
    [score |-> JInt(90), is_correct |-> JBool(TRUE),
     feedback_text |-> JStr(<<"O", "K", " ">>),
     suggested_difficulty |-> JStr(<<"H", "a", "r", "d">>)]

EvalB ==
    [score |-> JInt(70), is_correct |-> JBool(FALSE),
     feedback_text |-> JStr(<<"N", "o">>),
     suggested_difficulty |-> JStr(<<"E", "a", "s", "y">>)]

EvalInvalid == [EvalA EXCEPT !.score = JInt(101)]

TextA == Str(<<"W", "h", "y", "?">>)
TextB == Str(<<"Q", "1", " ">>)
TextC == Str(<<"H", "i">>)
TextD == Str(<<"Y", "o">>)
Blank == Str(<<" ">>)

FlowOpenAIFirst ==
    {RateLimited, ClientError, Returns(None), Returns(Str(<<>>)),
     Returns(Blank), Returns(TextA), Returns(TextC), Returns(Json(EvalA)),
     Returns(Json(EvalInvalid))}

FlowOpenAILater == {RateLimited, Returns(TextA), Returns(Json(EvalA))}

FlowGemini ==
    {Unexpected, Returns(None), Returns(Blank), Returns(TextB),
     Returns(TextD), Returns(Json(EvalB))}

FlowScripts ==
    {[c \in Clients |-> IF c = "openai" THEN <<r1, r2, r3>> ELSE <<g>>] :
        r1 \in FlowOpenAIFirst, r2 \in FlowOpenAILater,
        r3 \in FlowOpenAILater, g \in FlowGemini}

\* A provider asked for a question answers with plain text.
TextScript ==
    \A c \in Clients : \A i \in DOMAIN api[c] :
        api[c][i].kind = "returns" => api[c][i].content.kind # "json"

FlowInit ==
    /\ EmptyStore
    /\ api \in FlowScripts
    /\ ClientsIdle
    /\ ai_client \in AIClients
    /\ request = NoRequest

FlowNext ==
    \/ /\ DOMAIN sessions = {}
       /\ request = NoRequest
       /\ create_session("s1", "AI", MEDIUM)
       /\ UNCHANGED <<clientVars, serviceVars>>
    \/ \E topic \in {"", "AI"}, d \in {EASY, HARD} :
          TextScript /\ generate_question_begin("q1", topic, d)
    \/ generate_question_end
    \/ \E session_id \in SessionIds : submit_answer_begin(session_id, "q1")
    \/ submit_answer_end
    \/ /\ openai_attempt
       /\ Finish("openai")
       /\ UNCHANGED <<storeVars, ai_client>>
    \/ /\ gemini_call
       /\ Finish("gemini")
       /\ UNCHANGED <<storeVars, ai_client>>

\* One request to a service whose client is the OpenAI client or the hybrid
\* client: question generation, or the submit-answer route on a store of at
\* most one session.
SpecFlow == FlowInit /\ [][FlowNext]_vars

\* ------------------------------------------------------------------------
\* The policy functions on their own: _score_question, _combine_evaluations
\* and _parse_evaluation_response applied to one input each.
\* ------------------------------------------------------------------------

\* Candidate question texts: optional leading blank, optional opening word,
\* filler, optional digit, optional question mark, optional trailing blank.
\* The filler lengths put the text lengths on both sides of 30, 50, 150, 200.
Filler(n) == [i \in 1..n |-> "x"]
FillerLengths == {0, 27, 47, 147, 197}
Openers == {<<>>, <<"W", "h", "y">>, <<"c", "a", "n">>}

Candidates ==
    {Str(lead \o opener \o Filler(n) \o digit \o mark \o trail) :
        lead \in {<<>>, <<" ">>}, opener \in Openers, n \in FillerLengths,
        digit \in {<<>>, <<"7">>}, mark \in {<<>>, <<"?">>},
        trail \in {<<>>, <<" ">>}}

\* Evaluations the providers return as JSON text.
Evaluation(score, is_correct, feedback_text, suggested_difficulty) ==
    Json([score |-> JInt(score), is_correct |-> JBool(is_correct),
          feedback_text |-> JStr(feedback_text),
          suggested_difficulty |-> JStr(suggested_difficulty)])

ScoreRange == 0..100
GptFeedbacks == {<<"o", "k">>, <<"o", "k", "!">>, <<"g", "o", "o", "d">>}
GeminiFeedbacks == {<<"n", "o">>, <<"n", "o", "!">>, <<"p", "o", "o", "r">>}

\* Every pair of scores, the other fields fixed.
ScorePairs ==
    {[gpt_eval |-> Evaluation(a, TRUE, <<"o", "k">>, <<"H", "a", "r", "d">>),
      gemini_eval |-> Evaluation(b, FALSE, <<"n", "o">>,
                                 <<"E", "a", "s", "y">>)] :
        a \in ScoreRange, b \in ScoreRange}

\* Every combination of flags, feedback lengths and suggestions.
FieldPairs ==
    {[gpt_eval |-> Evaluation(90, c1, f1, d1),
      gemini_eval |-> Evaluation(70, c2, f2, d2)] :
        c1 \in BOOLEAN, c2 \in BOOLEAN, f1 \in GptFeedbacks,
        f2 \in GeminiFeedbacks, d1 \in DifficultyNames,
        d2 \in DifficultyNames}

\* Responses handed to the parser: any field may be absent or of another
\* type or out of range; and texts that are not JSON.
Absent == [t |-> "absent"]
ScoreValues ==
    {Absent, JInt(-1), JInt(0), JInt(85), JInt(100), JInt(101), JBool(TRUE),
     JStr(<<"8", "5">>), JNull}
CorrectValues == {Absent, JBool(TRUE), JBool(FALSE), JInt(1), JNull}
FeedbackValues ==
    {Absent, JStr(<<" ", "o", "k", " ">>), JStr(<<"o", "k">>),
     JStr(<<" ">>), JStr(<<>>), JInt(1)}
DifficultyValues ==
    {Absent, JStr(<<"E", "a", "s", "y">>), JStr(<<"M", "e", "d", "i", "u", "m">>),
     JStr(<<"H", "a", "r", "d">>), JStr(<<"e", "a", "s", "y">>), JNull}

Document(score, is_correct, feedback_text, suggested_difficulty) ==
    LET fields == [score |-> score, is_correct |-> is_correct,
                   feedback_text |-> feedback_text,
                   suggested_difficulty |-> suggested_difficulty]
    IN  [k \in {f \in required_fields : fields[f].t # "absent"} |-> fields[k]]

ResponseTexts ==
    {Json(Document(s, c, f, d)) :
        s \in ScoreValues, c \in CorrectValues, f \in FeedbackValues,
        d \in DifficultyValues}
    \cup {Str(<<>>), Blank, TextA}

PolicyRequests ==
    {[op |-> "score_question", question |-> q] : q \in Candidates}
    \cup {[op |-> "combine_evaluations", gpt_eval |-> p.gpt_eval,
           gemini_eval |-> p.gemini_eval] : p \in ScorePairs \cup FieldPairs}
    \cup {[op |-> "parse_evaluation_response", response_text |-> t] :
             t \in ResponseTexts}

PolicyInit ==
    /\ EmptyStore
    /\ api = [c \in Clients |-> <<>>]
    /\ ClientsIdle
    /\ ai_client = NoClient
    /\ request \in PolicyRequests

\* self._score_question(question)
score_question_call ==
    /\ request.op = "score_question"
    /\ ret = NoCall
    /\ ret' = Return("score_question", "none",
                     score_question(request.question))
    /\ UNCHANGED <<sessions, now, clientVars, serviceVars>>

\* self._combine_evaluations(gpt_eval, gemini_eval)
combine_evaluations_call ==
    /\ request.op = "combine_evaluations"
    /\ ret = NoCall
    /\ ret' = Return("combine_evaluations", "none",
                     combine_evaluations(request.gpt_eval,
                                         request.gemini_eval))
    /\ UNCHANGED <<sessions, now, clientVars, serviceVars>>

\* self._parse_evaluation_response(response_text)
parse_evaluation_response_call ==
    /\ request.op = "parse_evaluation_response"
    /\ ret = NoCall
    /\ ret' = Outcome("parse_evaluation_response", "none",
                      parse_evaluation_response(request.response_text))
    /\ UNCHANGED <<sessions, now, clientVars, serviceVars>>

PolicyNext ==
    \/ score_question_call
    \/ combine_evaluations_call
    \/ parse_evaluation_response_call

\* One application of a policy function to one input.
SpecPolicy == PolicyInit /\ [][PolicyNext]_vars


\* ------------------------------------------------------------------------
\* Two submit-answer requests for one session on the event loop
\* (app/routers/assessment.py, app/services/session_service.py)
\* ------------------------------------------------------------------------

\* The two handlers, coroutines of the one event loop.
Tasks == {"t1", "t2"}

\* The attempt each handler records.
TaskQuestion(t) == IF t = "t1" THEN "q1" ELSE "q2"

\* The event loop runs a handler when it runs no other: submit_answer has no
\* await, so a handler that has started keeps the loop until it returns.
runnable_mut(loop_task, t) == TRUE

runnable(loop_task, t) == loop_task = "none" \/ loop_task = t

\* Sessions as create_session and at most one update leave them: a single
\* record never changes the level.
OneSessionStores ==
    {[s \in {"s1"} |-> Session("s1", "AI", d, 0, 0)] : d \in Difficulty}
    \cup
    {[s \in {"s1"} |->
        [Session("s1", "AI", d, 0, 1) EXCEPT !.performance_history =
            <<PerformanceRecord("q0", score_threshold, c, d, 1)>>]] :
        d \in Difficulty, c \in BOOLEAN}

ConcurrentInit ==
    /\ sessions \in OneSessionStores
    /\ now = 2
    /\ ret = NoCall
    /\ api = [c \in Clients |-> <<>>]
    /\ ClientsIdle
    /\ ai_client = NoClient
    /\ \E c1 \in BOOLEAN, c2 \in BOOLEAN :
          request = [op |-> "update_session_performance",
                     session_id |-> "s1", initial |-> sessions,
                     running |-> "none",
                     tasks |-> [t \in Tasks |->
                        [pc |-> "called",
                         is_correct |-> IF t = "t1" THEN c1 ELSE c2,
                         window_end |-> "none",
                         new_difficulty |-> "none"]]]

\* update_session_performance: get_session, PerformanceRecord(...),
\* session.performance_history.append(record)
append_record(t) ==
    /\ request.tasks[t].pc = "called"
    /\ runnable(request.running, t)
    /\ LET session_id == request.session_id
           record == PerformanceRecord(TaskQuestion(t), score_threshold,
                         request.tasks[t].is_correct,
                         sessions[session_id].current_difficulty, now)
       IN  sessions' = [sessions EXCEPT
               ![session_id].performance_history = Append(@, record)]
    /\ now' = now + 1
    /\ request' = [request EXCEPT !.running = t,
                                  !.tasks[t].pc = "appended"]
    /\ UNCHANGED <<ret, clientVars, ai_client>>

\* update_session_performance: new_difficulty =
\* self.calculate_new_difficulty(session_id)
recompute_difficulty(t) ==
    /\ request.tasks[t].pc = "appended"
    /\ runnable(request.running, t)
    /\ LET session == sessions[request.session_id]
           history == session.performance_history
       IN  request' = [request EXCEPT
               !.tasks[t].pc = "computed",
               !.tasks[t].window_end = history[Len(history)].question_id,
               !.tasks[t].new_difficulty = NewDifficulty(session)]
    /\ UNCHANGED <<storeVars, clientVars, ai_client>>

\* update_session_performance: session.current_difficulty = new_difficulty,
\* session.updated_at = datetime.utcnow(); the handler then returns.
overwrite_difficulty(t) ==
    /\ request.tasks[t].pc = "computed"
    /\ runnable(request.running, t)
    /\ sessions' = [sessions EXCEPT
           ![request.session_id].current_difficulty =
               request.tasks[t].new_difficulty,
           ![request.session_id].updated_at = now]
    /\ now' = now + 1
    /\ ret' = Return("update_session_performance", request.session_id,
                     "None")
    /\ request' = [request EXCEPT !.running = "none",
                                  !.tasks[t].pc = "returned"]
    /\ UNCHANGED <<clientVars, ai_client>>

ConcurrentNext ==
    \/ \E t \in Tasks : append_record(t)
    \/ \E t \in Tasks : recompute_difficulty(t)
    \/ \E t \in Tasks : overwrite_difficulty(t)

\* Two submit-answer requests for the same session are in flight.
SpecConcurrent == ConcurrentInit /\ [][ConcurrentNext]_vars


\* ------------------------------------------------------------------------
\* The get-next-question route on a session with recorded attempts
\* (app/routers/assessment.py)
\* ------------------------------------------------------------------------

\* app/models.py: QuestionResponse
QuestionResponse_mut(question_id, question_text, difficulty) ==
    [question_id |-> question_id, question_text |-> question_text,
     difficulty |-> MEDIUM]

QuestionResponse(question_id, question_text, difficulty) ==
    [question_id |-> question_id, question_text |-> question_text,
     difficulty |-> difficulty]

\* get_next_question, up to the provider call: get_session, then
\* generate_question(topic=session.topic,
\* difficulty=session.current_difficulty).
get_next_question_begin(session_id, question_id) ==
    /\ NoRequestYet
    /\ LET got == get_session(sessions, "get_next_question", session_id)
       IN  IF got.status # "ok"
           THEN /\ ret' = got
                /\ UNCHANGED <<request, result>>
           ELSE /\ request' = [op |-> "get_next_question",
                               session_id |-> session_id,
                               question_id |-> question_id,
                               topic |-> got.value.topic,
                               difficulty |-> got.value.current_difficulty,
                               response_format |-> "text",
                               state |-> "awaiting", finished |-> <<>>]
                /\ result' = Dispatched(ai_client)
                /\ UNCHANGED ret
    /\ UNCHANGED <<sessions, now, api, attempt, calls, sleeps, ai_client>>

\* get_next_question, from the return of the provider call: the Question of
\* generate_question becomes the QuestionResponse.
get_next_question_end ==
    /\ request.op = "get_next_question"
    /\ request.state = "awaiting"
    /\ joined(ai_client, result)
    /\ LET question == generate_question(
                           ai_chat_completion(ai_client, "text", result),
                           request.question_id, request.topic,
                           request.difficulty)
       IN  ret' = Outcome("get_next_question", request.session_id,
                      IF question.status # "ok" THEN question
                      ELSE Returned(QuestionResponse(
                               question.value.question_id,
                               question.value.question_text,
                               question.value.difficulty)))
    /\ request' = [request EXCEPT !.state = "completed"]
    /\ UNCHANGED <<sessions, now, clientVars, ai_client>>

\* What the provider does on the calls of the request.
RouteScripts ==
    {[c \in Clients |->
        IF c = "openai" THEN <<r, Returns(TextA), Returns(TextA)>> ELSE <<>>] :
        r \in {RateLimited, ClientError, Returns(Blank), Returns(TextA)}}

\* get_question_service: the service is built on the OpenAI client.
RouteInit ==
    /\ EmptyStore
    /\ api \in RouteScripts
    /\ ClientsIdle
    /\ ai_client = [class |-> "OpenAIClient"]
    /\ request = NoRequest

\* The handlers run one at a time on the event loop: no attempt is recorded
\* while the question is being generated.
RouteNext ==
    \/ \E d \in Difficulty :
          /\ DOMAIN sessions = {}
          /\ request = NoRequest
          /\ create_session("s1", "AI", d)
          /\ UNCHANGED <<clientVars, serviceVars>>
    \/ \E is_correct \in BOOLEAN :
          /\ request = NoRequest
          /\ update_session_performance("s1", "q1", score_threshold,
                                        is_correct)
          /\ UNCHANGED <<clientVars, serviceVars>>
    \/ \E session_id \in SessionIds :
          get_next_question_begin(session_id, "q2")
    \/ get_next_question_end
    \/ /\ openai_attempt
       /\ Finish("openai")
       /\ UNCHANGED <<storeVars, ai_client>>

\* A session is created, attempts are recorded, and the next question is
\* requested.
SpecRoute == RouteInit /\ [][RouteNext]_vars


\* ------------------------------------------------------------------------
\* Properties
\* ------------------------------------------------------------------------

History(s) == sessions[s].performance_history
Current(s) == sessions[s].current_difficulty

\* The window the controller inspects: both records at level d, with the
\* given correctness flags.
Window(s, d, c1, c2) ==
    /\ Len(History(s)) >= 2
    /\ LET w == LastTwo(History(s))
       IN  /\ w[1].difficulty = d /\ w[2].difficulty = d
           /\ w[1].is_correct = c1 /\ w[2].is_correct = c2

\* The last call was a successful update_session_performance on s.
Updated(s) ==
    /\ ret.op = "update_session_performance"
    /\ ret.status = "ok"
    /\ ret.session_id = s

\* C1: after update_session_performance, a window of two correct records at
\* Medium leaves current_difficulty Hard, two incorrect records at Hard leave
\* it Medium, and two incorrect records at Medium leave it Easy.
C1_TransitionRules ==
    \A s \in DOMAIN sessions :
        Updated(s) =>
            /\ Window(s, MEDIUM, TRUE, TRUE) => Current(s) = HARD
            /\ Window(s, HARD, FALSE, FALSE) => Current(s) = MEDIUM
            /\ Window(s, MEDIUM, FALSE, FALSE) => Current(s) = EASY

C1_Witness ==
    \E s \in DOMAIN sessions :
        /\ Updated(s)
        /\ Window(s, HARD, FALSE, FALSE)
        /\ Current(s) = MEDIUM

\* C2: an update_session_performance whose window is two correct records at
\* Hard, two correct records at Easy, two incorrect records at Easy, or one
\* correct and one incorrect record, leaves current_difficulty as it was
\* before the call.
C2_CeilingAndFloor ==
    [][\A s \in DOMAIN sessions :
          Updated(s)' /\ now' # now =>
              LET h == sessions'[s].performance_history
                  w == LastTwo(h)
              IN  (/\ Len(h) >= 2
                   /\ \/ /\ w[1].difficulty = w[2].difficulty
                         /\ w[1].is_correct /\ w[2].is_correct
                         /\ w[1].difficulty \in {HARD, EASY}
                      \/ /\ w[1].difficulty = EASY /\ w[2].difficulty = EASY
                         /\ ~w[1].is_correct /\ ~w[2].is_correct
                      \/ w[1].is_correct # w[2].is_correct)
                  => sessions'[s].current_difficulty = Current(s)]_vars

C2_Witness ==
    \E s \in DOMAIN sessions :
        /\ Updated(s)
        /\ Window(s, EASY, TRUE, TRUE)
        /\ Current(s) = EASY

\* C3: with fewer than 2 records in the history, calculate_new_difficulty
\* returns the session's current difficulty, and the first
\* update_session_performance of a session leaves current_difficulty as it
\* was, whatever the level and the correctness of the record.
C3_ShortHistoryUnchanged ==
    [][\A s \in DOMAIN sessions :
          /\ (/\ ret'.op = "calculate_new_difficulty"
              /\ ret'.session_id = s
              /\ Len(History(s)) < 2)
             => ret'.status = "ok" /\ ret'.value = Current(s)
          /\ (/\ Updated(s)' /\ now' # now
              /\ Len(sessions'[s].performance_history) < 2)
             => sessions'[s].current_difficulty = Current(s)]_vars

C3_Witness ==
    \E s \in DOMAIN sessions :
        /\ ret.op = "calculate_new_difficulty"
        /\ ret.session_id = s
        /\ Len(History(s)) = 1
        /\ History(s)[1].is_correct
        /\ History(s)[1].difficulty = MEDIUM
        /\ ret.value = MEDIUM

\* C4: when the last two records were attempted at different levels,
\* calculate_new_difficulty returns the current difficulty and
\* update_session_performance leaves it as it was before the call.
C4_MixedLevelsUnchanged ==
    [][\A s \in DOMAIN sessions :
          /\ (/\ ret'.op = "calculate_new_difficulty"
              /\ ret'.session_id = s
              /\ Len(History(s)) >= 2
              /\ LastTwo(History(s))[1].difficulty
                    # LastTwo(History(s))[2].difficulty)
             => ret'.status = "ok" /\ ret'.value = Current(s)
          /\ (/\ Updated(s)' /\ now' # now
              /\ Len(sessions'[s].performance_history) >= 2
              /\ LastTwo(sessions'[s].performance_history)[1].difficulty
                    # LastTwo(sessions'[s].performance_history)[2].difficulty)
             => sessions'[s].current_difficulty = Current(s)]_vars

C4_Witness ==
    \E s \in DOMAIN sessions :
        /\ Updated(s)
        /\ Len(History(s)) = 3
        /\ History(s)[2].difficulty = HARD
        /\ History(s)[3].difficulty = MEDIUM
        /\ ~History(s)[2].is_correct /\ ~History(s)[3].is_correct
        /\ Current(s) = MEDIUM

\* C5: update_session_performance appends exactly one record, tagged with the
\* current_difficulty the session had before the call, and leaves the earlier
\* records in place.
C5_RecordTaggedWithOldLevel ==
    [][\A s \in DOMAIN sessions :
          Updated(s)' /\ now' # now =>
              LET h == sessions'[s].performance_history
              IN  /\ Len(h) = Len(History(s)) + 1
                  /\ SubSeq(h, 1, Len(History(s))) = History(s)
                  /\ h[Len(h)].difficulty = Current(s)]_vars

C5_Witness ==
    \E s \in DOMAIN sessions :
        /\ Updated(s)
        /\ Window(s, MEDIUM, TRUE, TRUE)
        /\ Current(s) = HARD

\* C6: every PerformanceRecord ever constructed has
\* is_correct = (score >= 80); stated here of the records
\* update_session_performance appends to the histories.
C6_CorrectIffThreshold ==
    \A s \in DOMAIN sessions :
        \A i \in 1..Len(History(s)) :
            History(s)[i].is_correct = (History(s)[i].score >= score_threshold)

\* C7: a successful update_session_performance(s, q, score, is_correct) turns
\* the history into the old history followed by one record carrying q, score
\* and is_correct; every other step leaves every history as it was.
C7_AppendOnly ==
    [][/\ \A s \in DOMAIN sessions :
             /\ s \in DOMAIN sessions'
             /\ \/ sessions'[s].performance_history = History(s)
                \/ /\ Updated(s)'
                   /\ Len(sessions'[s].performance_history)
                        = Len(History(s)) + 1
                   /\ SubSeq(sessions'[s].performance_history, 1,
                             Len(History(s))) = History(s)
       /\ \A s \in SessionIds, q \in QuestionIds, sc \in Scores,
             c \in BOOLEAN :
             (/\ Updated(s)'
              /\ update_session_performance(s, q, sc, c))
             => LET h == sessions'[s].performance_history
                IN  /\ h = Append(History(s), h[Len(h)])
                    /\ h[Len(h)].question_id = q
                    /\ h[Len(h)].score = sc
                    /\ h[Len(h)].is_correct = c]_vars

C7_Witness ==
    \E s \in DOMAIN sessions :
        /\ Updated(s)
        /\ Len(History(s)) = 3
        /\ History(s)[1].question_id = "q2" /\ History(s)[1].score = 79
        /\ History(s)[2].question_id = "q1" /\ History(s)[2].score = 80
        /\ History(s)[3].question_id = "q2" /\ History(s)[3].score = 80
        /\ History(s)[1].is_correct /\ ~History(s)[2].is_correct

\* C8: get_session on the identifier create_session(topic, d) has just
\* returned yields a session with that topic, current_difficulty d and an
\* empty performance history.
C8_CreateThenGet ==
    [][\A s \in SessionIds, topic \in Topics, d \in Difficulty :
          (/\ ret'.op = "create_session" /\ ret'.status = "ok"
           /\ create_session(s, topic, d))
          => LET got == get_session(sessions', "get_session", ret'.value)
             IN  /\ got.status = "ok"
                 /\ got.value.session_id = ret'.value
                 /\ got.value.topic = topic
                 /\ got.value.current_difficulty = d
                 /\ got.value.performance_history = <<>>]_vars

C8_Witness ==
    /\ ret.op = "get_session"
    /\ ret.status = "ok"
    /\ ret.value.topic = "ML"
    /\ ret.value.current_difficulty = HARD
    /\ ret.value.performance_history = <<>>
    /\ now = 1

\* C9: get_session, update_session_performance, calculate_new_difficulty and
\* get_current_difficulty on an identifier that is not in the store raise
\* SessionNotFoundError carrying that identifier, and a call that raises it
\* leaves the store as it was.
C9_UnknownSession ==
    [][/\ (/\ ret'.op \in {"get_session", "update_session_performance",
                           "calculate_new_difficulty",
                           "get_current_difficulty"}
           /\ ret'.session_id \notin DOMAIN sessions)
          => /\ ret'.status = "SessionNotFoundError"
             /\ ret'.value.session_id = ret'.session_id
       /\ ret'.status = "SessionNotFoundError" => sessions' = sessions]_vars

C9_Witness ==
    /\ ret.op = "update_session_performance"
    /\ ret.status = "SessionNotFoundError"
    /\ ret.session_id \notin DOMAIN sessions
    /\ \E s \in DOMAIN sessions : Len(History(s)) = 2

\* C10: the stored current_difficulty is a fixpoint of the controller:
\* calculate_new_difficulty on any session of the store returns the stored
\* current_difficulty, which is one of Easy, Medium, Hard.
C10_StoredDifficultyIsFixpoint ==
    /\ \A s \in DOMAIN sessions :
          /\ Current(s) \in Difficulty
          /\ calculate_new_difficulty(sessions, "calculate_new_difficulty", s)
                = Return("calculate_new_difficulty", s, Current(s))
    /\ (ret.op = "calculate_new_difficulty" /\ ret.status = "ok")
          => ret.value = Current(ret.session_id)

C10_Witness ==
    \E s \in DOMAIN sessions :
        /\ ret.op = "calculate_new_difficulty"
        /\ ret.session_id = s
        /\ Window(s, MEDIUM, FALSE, FALSE)
        /\ ret.value = EASY

\* C11: create_session returns an identifier that no session of the store
\* has, and leaves every existing session in the store exactly as it was:
\* each stays retrievable by its own identifier with its own state, beside
\* the new session, also when the new session has the topic and difficulty
\* of an existing one.
C11_CreateIsFreshAndFrames ==
    [][(ret'.op = "create_session" /\ ret'.status = "ok")
          => /\ ret'.value \notin DOMAIN sessions
             /\ DOMAIN sessions' = DOMAIN sessions \cup {ret'.value}
             /\ get_session(sessions', "get_session", ret'.value).status = "ok"
             /\ \A s \in DOMAIN sessions :
                   /\ s # ret'.value
                   /\ get_session(sessions', "get_session", s)
                         = Return("get_session", s, sessions[s])]_vars

C11_Witness ==
    /\ ret.op = "create_session" /\ ret.status = "ok"
    /\ \E s \in DOMAIN sessions :
          /\ s # ret.value
          /\ sessions[s].topic = sessions[ret.value].topic
          /\ Current(s) = MEDIUM
          /\ sessions[ret.value].current_difficulty = MEDIUM
          /\ Len(History(s)) = 2
          /\ History(ret.value) = <<>>

\* The responses to the outbound calls client c has made so far.
Made(c) == SubSeq(api[c], 1, calls[c])

\* chat_completion on client c has returned or raised.
Done(c) == result[c].status \notin {"idle", "pending"}

\* The failures the retry policy names as retryable.
RetryableFailures == {RateLimited, Timeout, ConnectionFailed, ServerError}

Succeeds(r) == r.kind = "returns" /\ r.content.kind # "None"

\* C12: one chat_completion of the OpenAI client makes at most 3 outbound
\* calls whatever the provider does, has made exactly 3 when it raises after
\* every call failed with a retryable failure, and a started call always
\* ends, with a response or with an error.
C12_BoundedAttempts ==
    /\ [](/\ calls["openai"] <= 3
          /\ (/\ Done("openai")
              /\ \A k \in 1..calls["openai"] :
                    api["openai"][k] \in RetryableFailures)
                => /\ calls["openai"] = 3
                   /\ result["openai"].status = "OpenAIAPIError")
    /\ (result["openai"].status = "pending") ~> Done("openai")

C12_Witness ==
    /\ result["openai"].status = "OpenAIAPIError"
    /\ calls["openai"] = 3
    /\ Made("openai") = <<RateLimited, Timeout, ServerError>>

\* C13: a ClientError (4xx) or Unexpected failure on any attempt of the
\* OpenAI client ends the call at once with an error: no later call is made
\* and no backoff sleep follows it, also when attempts remain.
C13_NonRetryableEndsCall ==
    \A k \in 1..calls["openai"] :
        api["openai"][k] \in {ClientError, Unexpected}
            => /\ calls["openai"] = k
               /\ result["openai"].status = "OpenAIAPIError"
               /\ result["openai"].original_error = api["openai"][k]
               /\ Len(sleeps["openai"]) = k - 1

C13_Witness ==
    /\ Made("openai") = <<ClientError>>
    /\ result["openai"].status = "OpenAIAPIError"
    /\ sleeps["openai"] = <<>>
    /\ attempt["openai"] < max_retries - 1

\* C14: when the k-th response of the provider (k <= 3) is the first
\* success and every earlier one is a retryable failure, of the same kind
\* or not, the OpenAI client returns the k-th response's content after
\* exactly k outbound calls and raises nothing.
C14_SucceedsOnAttemptK ==
    \A k \in 1..3 :
        (/\ Done("openai")
         /\ Succeeds(api["openai"][k])
         /\ \A j \in 1..(k - 1) : api["openai"][j] \in RetryableFailures)
            => /\ result["openai"] = Returned(api["openai"][k].content)
               /\ calls["openai"] = k

C14_Witness ==
    /\ result["openai"].status = "ok"
    /\ calls["openai"] = 3
    /\ api["openai"][1] = Timeout
    /\ api["openai"][2] = ConnectionFailed

\* C15: the OpenAI client sleeps retry_delay * 2^i after the failed
\* retryable attempt of 0-based index i that is followed by another
\* attempt, and at no other time: not before the first attempt, not after
\* the attempt that ends the call; a call that exhausts its 3 attempts has
\* slept twice, retry_delay and then 2 * retry_delay.
C15_BackoffSchedule ==
    LET slept == sleeps["openai"]
    IN  /\ Len(slept) = IF Done("openai") THEN calls["openai"] - 1
                        ELSE calls["openai"]
        /\ \A i \in 0..(Len(slept) - 1) :
              /\ slept[i + 1] = retry_delay * 2^i
              /\ api["openai"][i + 1].kind = "raises"
        /\ (Done("openai") /\ calls["openai"] = 3
              /\ api["openai"][3] \in RetryableFailures)
              => slept = <<retry_delay, 2 * retry_delay>>

C15_Witness ==
    /\ result["openai"].status = "OpenAIAPIError"
    /\ Made("openai") = <<ServerError, ServerError, RateLimited>>
    /\ sleeps["openai"] = <<1, 2>>

\* C16: a chat_completion of the OpenAI client that does not succeed
\* (attempts exhausted, a non-retryable failure, or a response whose content
\* is None) raises OpenAIAPIError carrying the operation name, the failure
\* it comes from and a message; it returns a value only when its last call
\* returned that content.
C16_TypedError ==
    Done("openai") =>
        LET last == api["openai"][calls["openai"]]
            r == result["openai"]
        IN  IF Succeeds(last)
            THEN r = Returned(last.content)
            ELSE /\ r.status = "OpenAIAPIError"
                 /\ r.details.operation = "chat_completion"
                 /\ r.message # ""
                 /\ r.original_error =
                       IF last.kind = "raises" THEN last
                       ELSE OpenAIAPIError(
                                "Received empty response from OpenAI API",
                                "chat_completion", None)

C16_Witness ==
    /\ Made("openai") = <<RateLimited, Returns(None)>>
    /\ result["openai"].status = "OpenAIAPIError"
    /\ result["openai"].original_error.status = "OpenAIAPIError"

\* C17: the OpenAI client and the Gemini client apply the same policy:
\* against providers that behave alike they make the same number of
\* outbound calls, sleep the same backoff delays and end in the same kind of
\* outcome, a value or a typed error.
C17_SamePolicy ==
    (Done("openai") /\ Done("gemini")) =>
        /\ calls["gemini"] = calls["openai"]
        /\ sleeps["gemini"] = sleeps["openai"]
        /\ result["gemini"].status = result["openai"].status

\* The request's client runs two provider legs.
Hybrid == TwoLegs(ai_client)

Completed(op) == request.op = op /\ request.state = "completed"

\* The leg of client c ended with a value that is not blank.
LegSucceeded(c) ==
    result[c].status = "ok" /\ ~Falsy(strip(result[c].value))

\* C18: in generate_question_hybrid and evaluate_answer_hybrid both legs are
\* started for the request and the selection / merge step runs only when
\* both have ended; a leg that is still running is changed by its own call
\* only, whatever happened to the other leg, and when the call of the other
\* leg failed, the value of the leg that ends last is the one the request
\* returns.
C18_ForkJoin ==
    /\ [](Hybrid /\ request.op # "none" =>
            /\ \A c \in Clients : result[c].status # "idle"
            /\ request.state = "completed" =>
                  /\ \A c \in Clients : Done(c)
                  /\ Len(request.finished) = 2
                  /\ LET slower == request.finished[2]
                         faster == request.finished[1]
                     IN  (LegSucceeded(slower) /\ result[faster].status # "ok") =>
                            IF request.op = "generate_question"
                            THEN request.topic # "" =>
                                   /\ ret.status = "ok"
                                   /\ ret.value.question_text
                                        = strip(result[slower].value)
                            ELSE LET e == evaluate_answer(result[slower])
                                 IN  /\ ret.status = e.status
                                     /\ e.status = "ok" =>
                                          /\ ret.value.score = e.value.score
                                          /\ ret.value.feedback_text
                                               = e.value.feedback_text)
    /\ [][\A c \in Clients :
            (result[c].status = "pending" /\ result'[c] # result[c])
                => /\ calls'[c] = calls[c] + 1
                   /\ result'[c].status
                        \in {"ok", "OpenAIAPIError", "Exception"}]_vars

C18_Witness ==
    /\ Hybrid
    /\ Completed("submit_answer")
    /\ request.finished = <<"gemini", "openai">>
    /\ result["gemini"].status = "Exception"
    /\ calls["openai"] = 3
    /\ ret.status = "ok"
    /\ ret.value.score = 90

\* C19: when both providers fail, generate_question (asked for a non-empty
\* topic) produces no Question: it raises QuestionGenerationError, whose
\* details name the requested topic and difficulty.
C19_BothFailRaises ==
    (/\ Hybrid
     /\ Completed("generate_question")
     /\ request.topic # ""
     /\ \A c \in Clients : result[c].status # "ok")
        => /\ ret.status = "QuestionGenerationError"
           /\ <<"topic", request.topic>> \in ret.value.details
           /\ <<"difficulty", request.difficulty>> \in ret.value.details

\* C20: when both providers fail, submit_answer ends with EvaluationError
\* and the store is as it was before the request; in every submit_answer the
\* store changes in the one step that follows the end of the provider calls
\* and a successful evaluation, and in no other.
C20_EvaluationFailureLeavesSession ==
    /\ []((/\ Hybrid
           /\ Completed("submit_answer")
           /\ \A c \in Clients : result[c].status # "ok")
             => /\ ret.op = "submit_answer"
                /\ ret.status = "EvaluationError"
                /\ History(request.session_id) = <<>>)
    /\ [][request.op = "submit_answer" =>
            /\ (sessions' # sessions) =>
                  /\ request.state = "awaiting"
                  /\ request'.state = "completed"
                  /\ \A c \in Clients : result[c].status # "pending"
                  /\ ret'.status = "ok"
            /\ (/\ request.state = "awaiting"
                /\ request'.state = "completed"
                /\ \A c \in Clients : result[c].status # "ok")
                  => /\ ret'.status = "EvaluationError"
                     /\ sessions' = sessions
                     /\ now' = now]_vars

C20_Witness ==
    /\ Hybrid
    /\ Completed("submit_answer")
    /\ result["openai"].status = "OpenAIAPIError"
    /\ calls["openai"] = 3
    /\ result["gemini"].status = "Exception"
    /\ ret.status = "EvaluationError"
    /\ History("s1") = <<>>
    /\ Current("s1") = MEDIUM

\* A response that is well formed as an evaluation: the four fields, an
\* integer score in 0..100, a boolean flag, a feedback that is not blank and
\* a suggested difficulty among Easy, Medium, Hard.
WellFormed(doc) ==
    /\ {"score", "is_correct", "feedback_text", "suggested_difficulty"}
          \subseteq DOMAIN doc
    /\ doc["score"].t = "int"
    /\ doc["score"].int \in 0..100
    /\ doc["is_correct"].t = "bool"
    /\ doc["feedback_text"].t = "str"
    /\ \E i \in 1..Len(doc["feedback_text"].chars) :
          doc["feedback_text"].chars[i] \notin {" ", "\t", "\n"}
    /\ doc["suggested_difficulty"].t = "str"
    /\ doc["suggested_difficulty"].chars
          \in {<<"E", "a", "s", "y">>, <<"M", "e", "d", "i", "u", "m">>,
               <<"H", "a", "r", "d">>}

\* The value is a valid evaluation / a text that is not blank.
ValidEvaluation(v) == v.kind = "json" /\ WellFormed(v.doc)
ValidText(v) == v.kind = "str" /\ strip(v).chars # <<>>

\* C21: when the call of exactly one provider fails and the other provider
\* succeeds, the request raises nothing and returns the survivor's result:
\* the question text trimmed, or the evaluation's score and flag as given
\* and its feedback trimmed; the same whichever provider survives.
C21_SurvivorReturned ==
    \A survivor \in Clients, failed \in Clients :
        (/\ Hybrid
         /\ request.op # "none"
         /\ request.state = "completed"
         /\ result[failed].status # "ok"
         /\ result[survivor].status = "ok")
            => LET v == result[survivor].value
               IN  IF request.op = "generate_question"
                   THEN (ValidText(v) /\ request.topic # "") =>
                           /\ ret.status = "ok"
                           /\ ret.value.question_text = strip(v)
                   ELSE ValidEvaluation(v) =>
                           /\ ret.status = "ok"
                           /\ ret.value.score = v.doc["score"].int
                           /\ ret.value.is_correct = v.doc["is_correct"].bool
                           /\ ret.value.feedback_text
                                = strip(Str(v.doc["feedback_text"].chars))

C21_Witness ==
    /\ Hybrid
    /\ Completed("submit_answer")
    /\ result["openai"].status = "OpenAIAPIError"
    /\ result["gemini"] = Returned(Json(EvalB))
    /\ ret.status = "ok"
    /\ ret.value.score = 70
    /\ ~ret.value.is_correct

\* C22: in submit_answer's evaluation a provider response that is not a
\* well-formed evaluation counts as that provider's failure: when the other
\* provider's response is well formed the result is the other provider's,
\* score, flag and trimmed feedback, and nothing of the invalid response.
C22_InvalidIsFailure ==
    \A good \in Clients, bad \in Clients :
        (/\ Hybrid
         /\ Completed("submit_answer")
         /\ result[good].status = "ok"
         /\ result[bad].status = "ok"
         /\ ValidEvaluation(result[good].value)
         /\ ~ValidEvaluation(result[bad].value))
            => LET doc == result[good].value.doc
               IN  /\ ret.status = "ok"
                   /\ ret.value.score = doc["score"].int
                   /\ ret.value.is_correct = doc["is_correct"].bool
                   /\ ret.value.feedback_text
                        = strip(Str(doc["feedback_text"].chars))

\* The text is empty or whitespace only.
BlankText(v) == v.kind = "str" /\ strip(v).chars = <<>>

\* C23: in generate_question an empty or whitespace-only text of one
\* provider counts as that provider's failure: when the other provider
\* returned a text that is not blank, that text (trimmed) is the question
\* and the call does not fail, whichever provider returned the blank one.
C23_BlankIsFailure ==
    \A blank \in Clients, other \in Clients :
        (/\ Hybrid
         /\ Completed("generate_question")
         /\ request.topic # ""
         /\ result[blank].status = "ok"
         /\ result[other].status = "ok"
         /\ BlankText(result[blank].value)
         /\ ValidText(result[other].value))
            => /\ ret.status = "ok"
               /\ ret.value.question_text = strip(result[other].value)

\* C24: in generate_question, when both providers returned a text that is
\* not blank, the question is the secondary provider's text when its
\* heuristic score is strictly higher, and the primary provider's text
\* otherwise, equal scores included.
C24_HigherScoreKept ==
    (/\ Hybrid
     /\ Completed("generate_question")
     /\ request.topic # ""
     /\ result["openai"].status = "ok"
     /\ result["gemini"].status = "ok"
     /\ ValidText(result["openai"].value)
     /\ ValidText(result["gemini"].value))
        => LET gpt == result["openai"].value
               gemini == result["gemini"].value
           IN  /\ ret.status = "ok"
               /\ ret.value.question_text =
                     IF score_question(gemini) > score_question(gpt)
                     THEN strip(gemini) ELSE strip(gpt)

C24_Witness ==
    /\ Hybrid
    /\ Completed("generate_question")
    /\ result["openai"] = Returned(TextC)
    /\ result["gemini"] = Returned(TextD)
    /\ score_question(TextC) = score_question(TextD)
    /\ ret.status = "ok"
    /\ ret.value.question_text = TextC

\* The heuristic as stated: the length band on the length of the text, the
\* digit, opening-word and question-mark tests on the trimmed text.
Heuristic(question) ==
    LET L == Len(question.chars)
        T == strip(question).chars
        band == IF 50 <= L /\ L <= 150 THEN 20
                ELSE IF 30 <= L /\ L <= 200 THEN 10 ELSE 0
        digit == IF \E i \in 1..Len(T) : T[i] \in Digits THEN 10 ELSE 0
        opening == IF \E word \in question_words : startswith(T, word)
                   THEN 15 ELSE 0
        mark == IF Len(T) > 0 /\ T[Len(T)] = "?" THEN 5 ELSE 0
    IN  Min(100, 50 + band + digit + opening + mark)

\* C25: the heuristic score of a candidate text, of length L and trimmed
\* text T, is min(100, 50 + 20 or 10 or 0 for the band of L + 10 when T has
\* a digit + 15 when T starts with a question word whatever the case + 5
\* when T ends with a question mark).
C25_HeuristicOnTrimmedText ==
    (ret.op = "score_question" /\ request.question.chars # <<>>)
        => ret.value = Heuristic(request.question)

\* The two evaluations of a completed merge.
Merged == ret.op = "combine_evaluations"
A == request.gpt_eval.doc
B == request.gemini_eval.doc

\* C26: the merged score of two evaluations with scores in 0..100 is
\* scoreA * 0.6 + scoreB * 0.4 rounded to the nearest integer, A being the
\* primary provider's.
C26_ScoreRoundedToNearest ==
    Merged => ret.value.doc.score
                = JInt((6 * A.score.int + 4 * B.score.int + 5) \div 10)

\* C27: the merged is_correct is the conjunction of the two providers'
\* flags, whatever the merged score.
C27_CorrectIsConjunction ==
    Merged => ret.value.doc.is_correct
                = JBool(A.is_correct.bool /\ B.is_correct.bool)

C27_Witness ==
    /\ Merged
    /\ A.is_correct.bool
    /\ ~B.is_correct.bool
    /\ ret.value.doc.score.int >= score_threshold
    /\ ret.value.doc.is_correct = JBool(FALSE)

\* C28: the merged feedback is the feedback of the provider whose feedback
\* is more than 1.5 times as long as the other's, and the primary
\* provider's feedback when neither is, equal lengths and a secondary
\* feedback exactly 1.5 times as long included.
C28_LongerFeedbackByHalf ==
    Merged =>
        LET a == A.feedback_text
            b == B.feedback_text
        IN  ret.value.doc.feedback_text =
              IF 2 * Len(b.chars) > 3 * Len(a.chars) THEN b ELSE a

C28_Witness ==
    /\ Merged
    /\ Len(A.feedback_text.chars) = 2
    /\ Len(B.feedback_text.chars) = 4
    /\ ret.value.doc.feedback_text = B.feedback_text
    /\ A.feedback_text # B.feedback_text

\* C29: the merged suggested_difficulty is the primary provider's, and the
\* merge of the same two evaluations with any other suggestion of the
\* secondary provider has the same suggested_difficulty.
C29_SecondarySuggestionIgnored ==
    Merged =>
        /\ ret.value.doc.suggested_difficulty = A.suggested_difficulty
        /\ \A d \in DifficultyNames :
              combine_evaluations(
                  request.gpt_eval,
                  Json([B EXCEPT !.suggested_difficulty = JStr(d)])
              ).doc.suggested_difficulty
                = ret.value.doc.suggested_difficulty

C29_Witness ==
    /\ Merged
    /\ A.suggested_difficulty = JStr(<<"H", "a", "r", "d">>)
    /\ B.suggested_difficulty = JStr(<<"E", "a", "s", "y">>)
    /\ ret.value.doc.suggested_difficulty = JStr(<<"H", "a", "r", "d">>)

\* C30: the parser returns a result exactly for the well-formed responses,
\* with the score, the flag and the suggested difficulty of the response
\* and its feedback trimmed; for every other response it raises
\* EvaluationError; and evaluate_answer raises nothing but EvaluationError.
C30_ParserExact ==
    ret.op = "parse_evaluation_response" =>
        LET response_text == request.response_text
            doc == response_text.doc
        IN  /\ ret.status = "ok" <=> ValidEvaluation(response_text)
            /\ ValidEvaluation(response_text) =>
                  ret.value = EvaluationResult(
                      doc["score"].int, doc["is_correct"].bool,
                      strip(Str(doc["feedback_text"].chars)),
                      DifficultyOf(doc["suggested_difficulty"].chars))
            /\ ~ValidEvaluation(response_text)
                  => ret.status = "EvaluationError"
            /\ evaluate_answer(Returned(response_text)).status
                  \in {"ok", "EvaluationError"}

\* C31: generate_question either raises QuestionGenerationError or returns
\* a Question with the requested difficulty and topic, the identifier that
\* was generated for it, and as text the text of a provider, trimmed and not
\* empty; nothing else is returned or raised.
C31_QuestionOrGenerationError ==
    Completed("generate_question") =>
        \/ ret.status = "QuestionGenerationError"
        \/ /\ ret.status = "ok"
           /\ ret.value.difficulty = request.difficulty
           /\ ret.value.topic = request.topic
           /\ ret.value.question_id = request.question_id
           /\ ret.value.question_text.chars # <<>>
           /\ \E c \in Clients :
                 /\ result[c].status = "ok"
                 /\ result[c].value.kind = "str"
                 /\ ret.value.question_text = strip(result[c].value)

\* C32: the result of a request served by both providers is determined by
\* the two outcomes alone: when it completes both calls have ended, and
\* what it returns or raises is the selection or merge of the primary's and
\* the secondary's outcome, whichever call ended first.
C32_OrderIndependent ==
    (Hybrid /\ request.op # "none" /\ request.state = "completed") =>
        /\ \A c \in Clients : Done(c)
        /\ Len(request.finished) = 2
        /\ IF request.op = "generate_question"
           THEN ret = Outcome("generate_question", "none",
                          generate_question(
                              Returned(select_best_question(
                                  Response(result["openai"]),
                                  Response(result["gemini"]))),
                              request.question_id, request.topic,
                              request.difficulty))
           ELSE LET evaluation ==
                        evaluate_answer(Returned(combine_evaluations(
                            Response(result["openai"]),
                            Response(result["gemini"]))))
                IN  /\ ret.status = evaluation.status
                    /\ IF evaluation.status = "ok"
                       THEN /\ ret.value.score = evaluation.value.score
                            /\ ret.value.is_correct
                                 = evaluation.value.is_correct
                            /\ ret.value.feedback_text
                                 = evaluation.value.feedback_text
                       ELSE ret.value = evaluation

\* The secondary's call ended first and the primary's text is kept.
C32_Witness ==
    /\ Hybrid
    /\ Completed("generate_question")
    /\ request.finished = <<"gemini", "openai">>
    /\ result["openai"] = Returned(TextC)
    /\ result["gemini"] = Returned(TextD)
    /\ ret.status = "ok"
    /\ ret.value.question_text = TextC

\* The level of the session after the calls of t and then of u, run one
\* after the other on the store the two requests found.
OneAfterTheOther(t, u) ==
    LET s == request.session_id
        first == Recorded(request.initial, s,
                     PerformanceRecord(TaskQuestion(t), score_threshold,
                         request.tasks[t].is_correct,
                         request.initial[s].current_difficulty, 0), 0)
        second == Recorded(first, s,
                      PerformanceRecord(TaskQuestion(u), score_threshold,
                          request.tasks[u].is_correct,
                          first[s].current_difficulty, 0), 0)
    IN  second[s].current_difficulty

C34_QuestionAtCurrentLevel ==
    (request.op = "get_next_question" /\ request.state = "completed") =>
        LET s == request.session_id
        IN  /\ request.difficulty = Current(s)
            /\ Current(s) = NewDifficulty(sessions[s])
            /\ (ret.status = "ok" => ret.value.difficulty = Current(s))

\* The level was raised by the second attempt and the question is Hard.
C34_Witness ==
    /\ request.op = "get_next_question"
    /\ request.state = "completed"
    /\ Len(History("s1")) = 2
    /\ History("s1")[2].difficulty = MEDIUM
    /\ Current("s1") = HARD
    /\ ret.op = "get_next_question"
    /\ ret.status = "ok"
    /\ ret.value.difficulty = HARD

\* C35: a session whose current_difficulty is Easy, by creation or by a
\* transition from Medium, keeps it in every later step, whatever attempts
\* are recorded.
C35_EasyIsAbsorbing ==
    [][\A s \in DOMAIN sessions :
          Current(s) = EASY =>
              /\ s \in DOMAIN sessions'
              /\ sessions'[s].current_difficulty = EASY]_vars

\* The session came down from Medium and a correct attempt at Easy left it
\* at Easy.
C35_Witness ==
    \E s \in DOMAIN sessions :
        /\ Updated(s)
        /\ Len(History(s)) = 3
        /\ History(s)[1].difficulty = MEDIUM
        /\ History(s)[2].difficulty = MEDIUM
        /\ History(s)[3].difficulty = EASY
        /\ History(s)[3].is_correct
        /\ Current(s) = EASY

\* C36: the level never changes in two consecutive calls of
\* update_session_performance: when the call before changed it (the last
\* record carries a level that is not the current one) the call leaves it,
\* and a call that changes it has two records at the old level behind it.
C36_NoConsecutiveChanges ==
    [][\A s \in DOMAIN sessions :
          Updated(s)' /\ now' # now =>
              LET h == History(s)
                  after == sessions'[s].performance_history
              IN  /\ (Len(h) >= 1 /\ h[Len(h)].difficulty # Current(s))
                        => /\ sessions'[s].current_difficulty = Current(s)
                           /\ after[Len(after) - 1].difficulty
                                # after[Len(after)].difficulty
                  /\ sessions'[s].current_difficulty # Current(s)
                        => /\ Len(after) >= 2
                           /\ after[Len(after) - 1].difficulty = Current(s)
                           /\ after[Len(after)].difficulty = Current(s)]_vars

\* The second call changed the level and the third left it.
C36_Witness ==
    \E s \in DOMAIN sessions :
        /\ Updated(s)
        /\ Len(History(s)) = 3
        /\ History(s)[1].difficulty = History(s)[2].difficulty
        /\ History(s)[3].difficulty # History(s)[2].difficulty
        /\ Current(s) = History(s)[3].difficulty

\* Easy < Medium < Hard
Level(d) == IF d = EASY THEN 1 ELSE IF d = MEDIUM THEN 2 ELSE 3

\* C37: one update_session_performance moves current_difficulty by at most
\* one level: never from Hard to Easy, never from Easy to Hard.
C37_OneLevelAtATime ==
    [][\A s \in DOMAIN sessions :
          Updated(s)' /\ now' # now =>
              Level(sessions'[s].current_difficulty) - Level(Current(s))
                  \in {-1, 0, 1}]_vars

\* Two incorrect attempts at Hard brought the session to Medium, not Easy.
C37_Witness ==
    \E s \in DOMAIN sessions :
        /\ Updated(s)
        /\ Len(History(s)) = 2
        /\ History(s)[1].difficulty = HARD
        /\ History(s)[2].difficulty = HARD
        /\ ~History(s)[1].is_correct
        /\ ~History(s)[2].is_correct
        /\ Current(s) = MEDIUM

\* C38: update_session_performance on a session changes that session's
\* performance_history, current_difficulty and updated_at only: its
\* session_id, topic and created_at, the sessions the store holds and every
\* other session are as before.
C38_UpdateFrame ==
    [][\A s \in DOMAIN sessions :
          Updated(s)' /\ now' # now =>
              /\ DOMAIN sessions' = DOMAIN sessions
              /\ sessions'[s].session_id = sessions[s].session_id
              /\ sessions'[s].topic = sessions[s].topic
              /\ sessions'[s].created_at = sessions[s].created_at
              /\ \A other \in DOMAIN sessions \ {s} :
                    sessions'[other] = sessions[other]]_vars

\* An attempt was recorded on one of two sessions; the other has none.
C38_Witness ==
    \E s \in DOMAIN sessions, other \in DOMAIN sessions :
        /\ s # other
        /\ Updated(s)
        /\ Len(History(s)) >= 1
        /\ sessions[s].updated_at > sessions[s].created_at
        /\ Len(History(other)) = 0
        /\ sessions[other].updated_at = sessions[other].created_at

\* C39: the merged score of two evaluations with integer scores in 0..100
\* is not below the smaller and not above the larger of the two, so it is in
\* 0..100, and it is the common score when the two are equal.
C39_ScoreBetween ==
    Merged =>
        LET a == A.score.int
            b == B.score.int
            merged == ret.value.doc.score
        IN  /\ merged.t = "int"
            /\ Min(a, b) <= merged.int
            /\ merged.int <= IF a >= b THEN a ELSE b
            /\ merged.int \in 0..100
            /\ a = b => merged.int = a

\* Equal scores at the top of the range.
C39_Witness ==
    /\ Merged
    /\ A.score.int = 100
    /\ B.score.int = 100
    /\ ret.value.doc.score = JInt(100)

====
